---- MODULE Spec2Model ----
(***************************************************************************)
(* validate-poweron-action: change-set resolution and validation          *)
(* orchestration (validatePowerOns and the functions it calls).           *)
(*                                                                         *)
(* A string is a sequence of tokens; "\t", "\n" and "/" are tokens of     *)
(* their own, and a file extension (".PO") is the last token of a path.    *)
(* The external collaborators (git, find, the file system, the Symitar    *)
(* clients, validateApiKey) answer nondeterministically.                   *)
(***************************************************************************)
EXTENDS Integers, Sequences, FiniteSets, TLC

\* longest command output, in lines, the model feeds to the resolver
MaxLines == 2

----------------------------------------------------------------------------
(* String helpers of the JavaScript runtime *)

RECURSIVE SplitOn(_, _)
\* String.prototype.split(sep)
SplitOn(s, sep) ==
  IF \A i \in 1..Len(s) : s[i] # sep
    THEN <<s>>
    ELSE LET k == CHOOSE i \in 1..Len(s) : s[i] = sep /\ \A j \in 1..(i - 1) : s[j] # sep
         IN  <<SubSeq(s, 1, k - 1)>> \o SplitOn(SubSeq(s, k + 1, Len(s)), sep)

RECURSIVE Join(_, _)
\* Array.prototype.join(sep)
Join(list, sep) ==
  IF list = <<>> THEN <<>>
  ELSE IF Len(list) = 1 THEN list[1]
  ELSE list[1] \o <<sep>> \o Join(Tail(list), sep)

\* String.prototype.trim(): whitespace tokens at both ends are dropped
Whitespace == {" ", "\t", "\n"}

RECURSIVE TrimLeft(_)
TrimLeft(s) == IF s # <<>> /\ s[1] \in Whitespace THEN TrimLeft(Tail(s)) ELSE s

RECURSIVE TrimRight(_)
TrimRight(s) ==
  IF s # <<>> /\ s[Len(s)] \in Whitespace THEN TrimRight(SubSeq(s, 1, Len(s) - 1)) ELSE s

Trim(s) == TrimRight(TrimLeft(s))

\* path.basename(p): what follows the last "/"
basename(p) ==
  LET parts == SplitOn(p, "/") IN parts[Len(parts)]

Extensions == {".PO", ".po", ".DEF", ".PRO", ".md"}

\* path.extname(p): the extension token that ends the basename, or ''
extname(p) ==
  LET b == basename(p)
  IN  IF Len(b) >= 2 /\ b[Len(b)] \in Extensions THEN <<b[Len(b)]>> ELSE <<>>

UpperToken(t) ==
  CASE t = ".po" -> ".PO"
    [] t = ".md" -> ".MD"
    [] t = "procedure" -> "PROCEDURE"
    [] OTHER -> t

\* String.prototype.toUpperCase()
toUpperCase(s) == [i \in 1..Len(s) |-> UpperToken(s[i])]

----------------------------------------------------------------------------
(* The file classifier of @libum-llc/symitar, as far as validator.ts uses it *)

POWERON_EXTENSIONS == {".PO", ".DEF", ".PRO"}
EXTENSIONS_TO_SKIP_VALIDATION == {".DEF", ".PRO"}

isPowerOnFile(p) ==
  LET e == toUpperCase(extname(p)) IN e # <<>> /\ e[1] \in POWERON_EXTENSIONS

shouldValidatePowerOnByExtension(p) ==
  LET e == toUpperCase(extname(p)) IN ~(e # <<>> /\ e[1] \in EXTENSIONS_TO_SKIP_VALIDATION)

RECURSIVE removeBlockComments(_)
\* a block comment is the tokens from "[" to the next "]"
removeBlockComments(c) ==
  IF c = <<>> THEN <<>>
  ELSE IF c[1] = "["
    THEN IF \E i \in 2..Len(c) : c[i] = "]"
           THEN LET k == CHOOSE i \in 2..Len(c) : c[i] = "]" /\ \A j \in 2..(i - 1) : c[j] # "]"
                IN  removeBlockComments(SubSeq(c, k + 1, Len(c)))
           ELSE <<>>
    ELSE <<c[1]>> \o removeBlockComments(Tail(c))

\* the first word of the text it is given
getFirstWord(c) ==
  LET t == TrimLeft(c) IN IF t = <<>> THEN <<>> ELSE <<t[1]>>

hasTargetDivision(c) == \E i \in 1..Len(c) : c[i] = "TARGET"
hasPrintDivision(c) == \E i \in 1..Len(c) : c[i] = "PRINT TITLE"

----------------------------------------------------------------------------
(* The working tree: what fs.promises.readFile gives for a path *)

VALID_SPECFILE == <<"TARGET", "=ACCOUNT", "\n", "PRINT TITLE", "=My Report", "\n">>

Unreadable == <<"<ENOENT>">>

readFile(p) ==
  LET b == basename(p)
      stem == IF b = <<>> THEN "" ELSE b[1]
  IN  CASE stem = "PROC" -> <<"procedure", "\n", "TARGET", "=ACCOUNT", "\n", "PRINT TITLE", "\n">>
        [] stem = "NOTARGET" -> <<"[", "TARGET", "]", "PRINT TITLE", "\n">>
        [] stem = "NOPRINT" -> <<"TARGET", "=ACCOUNT", "\n">>
        [] stem = "NEITHER" -> <<"\n">>
        [] stem = "GONE" -> Unreadable
        [] stem = "UTILS" -> Unreadable
        [] OTHER -> VALID_SPECFILE

----------------------------------------------------------------------------
(* Run configuration (ValidationConfig) *)

NoBranch == <<>>
TargetBranches == {NoBranch, <<"main">>, <<"origin/", "main">>}
IgnoreLists == {{}, {<<"FILE2", ".PO">>}}

(* What git diff --name-status can print, line by line *)
DiffLines ==
  { <<"M", "\t", "REPWRITERSPECS", "/", "FILE1", ".PO">>,
    <<"A", "\t", "REPWRITERSPECS", "/", "FILE2", ".PO">>,
    <<"D", "\t", "REPWRITERSPECS", "/", "DELETED", ".PO">>,
    <<"A", "\t", "REPWRITERSPECS", "/", "README", ".md">>,
    <<"M", "\t", "REPWRITERSPECS", "/", "UTILS", ".DEF">>,
    <<"R100", "\t", "REPWRITERSPECS", "/", "OLD", ".po", "\t", "REPWRITERSPECS", "/", "NEW", ".po">>,
    <<"warning">>,
    <<" ">> }

(* What find can print, line by line *)
FindLines ==
  { <<"REPWRITERSPECS", "/", "FILE1", ".PO">>,
    <<"REPWRITERSPECS", "/", "SUB", "/", "FILE1", ".PO">>,
    <<"REPWRITERSPECS", "/", "FILE2", ".PO">>,
    <<"REPWRITERSPECS", "/", "UTILS", ".DEF">>,
    <<"REPWRITERSPECS", "/", "PROC", ".PO">>,
    <<"REPWRITERSPECS", "/", "NOTARGET", ".PO">>,
    <<"REPWRITERSPECS", "/", "NOPRINT", ".PO">>,
    <<"REPWRITERSPECS", "/", "NEITHER", ".PO">>,
    <<"REPWRITERSPECS", "/", "GONE", ".PO">>,
    <<>> }

\* every command output of at most MaxLines lines
Outputs(L) == UNION { [1..n -> L] : n \in 0..MaxLines }

----------------------------------------------------------------------------
VARIABLES
  config,            \* the ValidationConfig of the run
  inputs,            \* what core.getInput gives run(); NoInputs when run() is not the caller
  pc,                \* where the run stands
  repoRefs,          \* what git rev-parse has answered so far: [ok, bad]
  revParsed,         \* the variants handed to git rev-parse, in order
  variantIdx,        \* getChangedFiles: position in branchVariants
  resolvedBranch,    \* getChangedFiles: resolvedBranch
  diffRef,           \* the reference handed to git diff, one entry per call
  lines,             \* getChangedFiles: allFiles / lines
  lineIdx,           \* getChangedFiles: position of the for-of loop
  files,             \* the ChangedFile list (filesToValidate / changedFiles)
  origin,            \* for each entry of files, the line it came from
  reads,             \* the paths handed to fs.promises.readFile
  skipped,           \* the "Skipping ..." log lines: [line, reason]
  clients,           \* the transport clients constructed, in order
  workers,           \* number of createValidateWorker calls
  enteredLoop,       \* the dispatcher reached its for-of loop
  idx,               \* dispatcher: iterations of the for-of loop begun
  errors,            \* dispatcher: errors
  validatedFiles,    \* dispatcher: validatedFiles
  filesFailed,       \* dispatcher: filesFailed
  started,           \* the paths handed to validatePowerOn, in call order
  receivers,         \* the object each validatePowerOn call was made on, in call order
  inflight,          \* the validatePowerOn calls not yet settled
  settled,           \* how each validatePowerOn call settled, in order
  endCalls,          \* number of client.end() calls
  pending,           \* the completion the try block left for after finally
  result,            \* what validatePowerOns returned: <<>> or <<result>>
  thrown,            \* what validatePowerOns threw: <<>> or <<message>>
  trace              \* the calls to external collaborators, in order: [op, arg]

vars == <<config, inputs, pc, repoRefs, revParsed, variantIdx, resolvedBranch, diffRef,
          lines, lineIdx, files, origin, reads, skipped, clients, workers,
          enteredLoop, idx, errors, validatedFiles, filesFailed, started, receivers,
          inflight, settled, endCalls, pending, result, thrown, trace>>

resolverVars == <<repoRefs, revParsed, variantIdx, resolvedBranch, diffRef,
                  lines, lineIdx, files, origin, reads, skipped>>

dispatcherVars == <<clients, workers, enteredLoop, idx, errors, validatedFiles,
                    filesFailed, started, receivers, inflight, settled, endCalls, pending>>

\* run() is not the caller: validatePowerOns is called with a config of its own
NoInputs == <<>>

Init ==
  /\ config \in [connectionType : {"https", "ssh"},
                 targetBranch : TargetBranches,
                 ignoreList : IgnoreLists,
                 apiKey : {"test-api-key"},
                 symitarHostname : {"test.symitar.example.com"}]
  /\ inputs = NoInputs
  /\ pc = "start"
  /\ repoRefs = [ok |-> {}, bad |-> {}]
  /\ revParsed = <<>>
  /\ variantIdx = 1
  /\ resolvedBranch = <<>>
  /\ diffRef = <<>>
  /\ lines = <<>>
  /\ lineIdx = 1
  /\ files = <<>>
  /\ origin = <<>>
  /\ reads = {}
  /\ skipped = <<>>
  /\ clients = <<>>
  /\ workers = 0
  /\ enteredLoop = FALSE
  /\ idx = 0
  /\ errors = <<>>
  /\ validatedFiles = <<>>
  /\ filesFailed = 0
  /\ started = <<>>
  /\ receivers = <<>>
  /\ inflight = {}
  /\ settled = <<>>
  /\ endCalls = 0
  /\ pending = <<>>
  /\ result = <<>>
  /\ thrown = <<>>
  /\ trace = <<>>

----------------------------------------------------------------------------
(* validatePowerOns: credential check *)

\* validateApiKey(config.apiKey, config.symitarHostname)
ApiKeyArgs(cfg) == <<cfg.apiKey, cfg.symitarHostname>>

\* the call without await: the run goes on while the check is pending
ApiKeyCallPcNoAwait == "getChangedFiles"

\* await validateApiKey(...): the run stands still until the check settles
ApiKeyCallPc == "validateApiKey"

CallValidateApiKey ==
  /\ pc = "start"
  /\ trace' = Append(trace, [op |-> "validateApiKey", arg |-> ApiKeyArgs(config)])
  /\ pc' = ApiKeyCallPc
  /\ UNCHANGED <<config, inputs, resolverVars, dispatcherVars, result, thrown>>

ValidateApiKeyOk ==
  /\ pc = "validateApiKey"
  /\ trace' = Append(trace, [op |-> "validateApiKey resolved", arg |-> <<>>])
  /\ pc' = "getChangedFiles"
  /\ UNCHANGED <<config, inputs, resolverVars, dispatcherVars, result, thrown>>

\* the rejection caught and the run carried on
AfterApiKeyRejectsSwallowed == "getChangedFiles"

\* the rejection of the awaited validateApiKey leaves validatePowerOns
AfterApiKeyRejects == "done"

ValidateApiKeyFails ==
  /\ pc = "validateApiKey"
  /\ \E e \in {<<"Invalid API key">>, <<"getaddrinfo ENOTFOUND">>} :
       /\ trace' = Append(trace, [op |-> "validateApiKey rejected", arg |-> e])
       /\ thrown' = <<e>>
  /\ pc' = AfterApiKeyRejects
  /\ UNCHANGED <<config, inputs, resolverVars, dispatcherVars, result>>

----------------------------------------------------------------------------
(* getSkipReason *)

NoReason == <<>>

\* the single-division checks placed before the check of both
ContentSkipReasonReordered(content) ==
  LET contentNoComments == removeBlockComments(content)
      firstWord == getFirstWord(content)
      hasTarget == hasTargetDivision(contentNoComments)
      hasPrint == hasPrintDivision(contentNoComments)
  IN  IF toUpperCase(firstWord) = <<"PROCEDURE">>
        THEN <<"file is a PROCEDURE (not a specfile)">>
      ELSE IF ~hasTarget THEN <<"missing TARGET division">>
      ELSE IF ~hasPrint THEN <<"missing PRINT TITLE division">>
      ELSE IF ~hasTarget /\ ~hasPrint THEN <<"missing TARGET and PRINT TITLE divisions">>
      ELSE NoReason

\* the reason of getSkipReason for the content that was read
ContentSkipReason(content) ==
  LET contentNoComments == removeBlockComments(content)
      firstWord == getFirstWord(content)
      hasTarget == hasTargetDivision(contentNoComments)
      hasPrint == hasPrintDivision(contentNoComments)
  IN  IF toUpperCase(firstWord) = <<"PROCEDURE">>
        THEN <<"file is a PROCEDURE (not a specfile)">>
      ELSE IF ~hasTarget /\ ~hasPrint THEN <<"missing TARGET and PRINT TITLE divisions">>
      ELSE IF ~hasTarget THEN <<"missing TARGET division">>
      ELSE IF ~hasPrint THEN <<"missing PRINT TITLE division">>
      ELSE NoReason

\* line.split('\t') of every line the diff can print
DiffFields == [line \in DiffLines |-> SplitOn(line, "\t")]

\* every path a listing or a diff line can hand to the skip policy
KnownPaths ==
  FindLines \cup {DiffFields[line][2] : line \in {d \in DiffLines : Len(DiffFields[d]) >= 2}}

\* path.basename(p) of every such path
Basenames == [p \in KnownPaths |-> basename(p)]

\* isPowerOnFile(p) of every such path
PowerOnFiles == [p \in KnownPaths |-> isPowerOnFile(p)]

\* the extension check left out
ExtensionDecidesNever(p) == FALSE

\* !shouldValidatePowerOnByExtension(filePath)
ExtensionDecides(p) == ~shouldValidatePowerOnByExtension(p)

\* whether the extension decides, of every such path
ExtensionDecisions == [p \in KnownPaths |-> ExtensionDecides(p)]

\* getSkipReason reads the file only when the extension does not decide
ReadsFile(p) == ~ExtensionDecisions[p]

\* a catch block that skips the file
UnreadableReasonFailClosed == <<"could not read file">>

\* catch { return null; }
UnreadableReason == NoReason

getSkipReason(p) ==
  IF ExtensionDecides(p)
    THEN toUpperCase(extname(p)) \o <<" files are include/procedure files (not validated standalone)">>
  ELSE IF readFile(p) = Unreadable THEN UnreadableReason
  ELSE ContentSkipReason(readFile(p))

\* getSkipReason(filePath) of every such path
SkipReasons == [p \in KnownPaths |-> getSkipReason(p)]

----------------------------------------------------------------------------
(* getChangedFiles *)

\* output.split('\n').filter((line) => line.trim().length > 0)
NonBlank(line) == Len(Trim(line)) > 0
NonBlankLines(output) == SelectSeq(output, NonBlank)

\* what is left of the output of find, and of git diff, after that filter
FindResults == {NonBlankLines(output) : output \in Outputs(FindLines)}
DiffResults == {NonBlankLines(output) : output \in Outputs(DiffLines)}

\* ignoreList.includes(basename) compared with the whole path
IsIgnoredWholePath(ignoreList, filePath) == filePath \in ignoreList

\* ignoreList.includes(path.basename(filePath))
IsIgnored(ignoreList, filePath) == Basenames[filePath] \in ignoreList

\* a scanned file tagged as if it came from a diff
ExistingStatusModified == <<"modified">>

\* filesToValidate.push({ filePath, status: 'existing' })
ExistingStatus == <<"existing">>

\* an empty target branch taken for the name of a branch
NoTargetBranchNever(targetBranch) == FALSE

\* if (!targetBranch): the empty string is no target branch
NoTargetBranch(targetBranch) == targetBranch = NoBranch

\* full-scan mode: find prints the paths with a PowerOn extension
Find ==
  /\ pc = "getChangedFiles"
  /\ trace' = Append(trace, [op |-> "exec find", arg |-> <<>>])
  /\ NoTargetBranch(config.targetBranch)
  /\ \E allFiles \in FindResults :
       /\ lines' = allFiles
       /\ pc' = IF lines' = <<>> THEN "gotFiles" ELSE "scanLoop"
  /\ lineIdx' = 1
  /\ UNCHANGED <<config, inputs, repoRefs, revParsed, variantIdx, resolvedBranch, diffRef,
                 files, origin, reads, skipped, dispatcherVars, result, thrown>>

\* the reason of the skip policy logged nowhere and acted on nowhere
SkipsNever(skipReason) == FALSE

\* if (skipReason) { core.info(... Skipping ...) } else { ...push(...) }
Skips(skipReason) == skipReason # NoReason

\* the skip policy asked about every line, excluded or not
SkipPolicyCallsEager(t, excluded, filePath) ==
  LET asked == Append(t, [op |-> "getSkipReason", arg |-> filePath])
  IN  IF ReadsFile(filePath)
        THEN Append(asked, [op |-> "readFile", arg |-> filePath])
        ELSE asked

\* await getSkipReason(fullPath), reached only by a line that no earlier check has
\* excluded with continue, and the fs.promises.readFile call inside it
SkipPolicyCalls(t, excluded, filePath) ==
  IF excluded THEN t
  ELSE LET asked == Append(t, [op |-> "getSkipReason", arg |-> filePath])
       IN  IF ReadsFile(filePath)
             THEN Append(asked, [op |-> "readFile", arg |-> filePath])
             ELSE asked

\* the new candidate put in front of the list
PushFileInFront(list, file) == <<file>> \o list

\* filesToValidate.push({...}) / changedFiles.push({...})
PushFile(list, file) == Append(list, file)

\* one iteration of the loop over allFiles
ScanLine ==
  /\ pc = "scanLoop"
  /\ lineIdx <= Len(lines)
  /\ LET filePath == lines[lineIdx]
         skipReason == SkipReasons[filePath]
     IN  IF IsIgnored(config.ignoreList, filePath)
           THEN /\ skipped' = Append(skipped, [line |-> lineIdx, reason |-> <<"in ignore list">>])
                /\ trace' = SkipPolicyCalls(trace, TRUE, filePath)
                /\ UNCHANGED <<files, origin, reads>>
           ELSE /\ reads' = IF ReadsFile(filePath) THEN reads \cup {filePath} ELSE reads
                /\ trace' = SkipPolicyCalls(trace, FALSE, filePath)
                /\ IF Skips(skipReason)
                     THEN /\ skipped' = Append(skipped, [line |-> lineIdx, reason |-> skipReason])
                          /\ UNCHANGED <<files, origin>>
                     ELSE /\ files' = PushFile(files, [filePath |-> filePath, status |-> ExistingStatus])
                          /\ origin' = Append(origin, lineIdx)
                          /\ UNCHANGED skipped
  /\ lineIdx' = lineIdx + 1
  /\ pc' = IF lineIdx' > Len(lines) THEN "gotFiles" ELSE "scanLoop"
  /\ UNCHANGED <<config, inputs, repoRefs, revParsed, variantIdx, resolvedBranch, diffRef,
                 lines, dispatcherVars, result, thrown>>

\* targetBranch.replace(/^origin\//, '')
branchName(targetBranch) ==
  IF targetBranch # <<>> /\ targetBranch[1] = "origin/" THEN Tail(targetBranch) ELSE targetBranch

\* the bare name tried before the remote-tracking reference
branchVariantsReordered(targetBranch) ==
  << targetBranch,
     branchName(targetBranch),
     <<"refs/remotes/origin/">> \o branchName(targetBranch),
     <<"refs/heads/">> \o branchName(targetBranch),
     <<"remotes/origin/">> \o branchName(targetBranch) >>

branchVariants(targetBranch) ==
  << targetBranch,
     <<"refs/remotes/origin/">> \o branchName(targetBranch),
     branchName(targetBranch),
     <<"refs/heads/">> \o branchName(targetBranch),
     <<"remotes/origin/">> \o branchName(targetBranch) >>

\* a loop that asks again about the reference that did not resolve
NextVariantRetried(i) == i

\* for (const variant of branchVariants): on to the next variant
NextVariant(i) == i + 1

\* git rev-parse --verify variant: the repository answers the same for the
\* same reference throughout a run
RevParse ==
  /\ pc = "getChangedFiles"
  /\ ~NoTargetBranch(config.targetBranch)
  /\ variantIdx <= Len(branchVariants(config.targetBranch))
  /\ LET variant == branchVariants(config.targetBranch)[variantIdx]
     IN  /\ revParsed' = Append(revParsed, variant)
         /\ trace' = Append(trace, [op |-> "exec git rev-parse", arg |-> variant])
         /\ \E exitOk \in BOOLEAN :
              /\ variant \in repoRefs.ok => exitOk
              /\ variant \in repoRefs.bad => ~exitOk
              /\ IF exitOk
                   THEN /\ repoRefs' = [repoRefs EXCEPT !.ok = @ \cup {variant}]
                        /\ resolvedBranch' = variant
                        /\ pc' = "checkBranch"
                        /\ UNCHANGED variantIdx
                   ELSE /\ repoRefs' = [repoRefs EXCEPT !.bad = @ \cup {variant}]
                        /\ variantIdx' = NextVariant(variantIdx)
                        /\ pc' = IF variantIdx' <= Len(branchVariants(config.targetBranch))
                                   THEN pc ELSE "checkBranch"
                        /\ UNCHANGED resolvedBranch
  /\ UNCHANGED <<config, inputs, diffRef, lines, lineIdx, files, origin, reads, skipped,
                 dispatcherVars, result, thrown>>

\* the check after the loop left out
NotResolvedNeverChecked(rb) == FALSE

\* !resolvedBranch, resolvedBranch being '' until a variant resolves
NotResolved(rb) == rb = <<>>

\* no variant resolved
BranchNotFound ==
  /\ pc = "checkBranch"
  /\ NotResolved(resolvedBranch)
  /\ thrown' = << <<"Target branch '">> \o config.targetBranch \o <<"' not found. Make sure you have checked out with sufficient depth (fetch-depth: 0) and the branch exists.">> >>
  /\ pc' = "done"
  /\ UNCHANGED <<config, inputs, trace, resolverVars, dispatcherVars, result>>

\* git diff --name-status resolvedBranch -- poweronDirectory
Diff ==
  /\ pc = "checkBranch"
  /\ ~NotResolved(resolvedBranch)
  /\ trace' = Append(trace, [op |-> "exec git diff", arg |-> resolvedBranch])
  /\ diffRef' = Append(diffRef, resolvedBranch)
  /\ \E changed \in DiffResults :
       /\ lines' = changed
       /\ pc' = IF lines' = <<>> THEN "gotFiles" ELSE "diffLoop"
  /\ lineIdx' = 1
  /\ UNCHANGED <<config, inputs, repoRefs, revParsed, variantIdx, resolvedBranch,
                 files, origin, reads, skipped, dispatcherVars, result, thrown>>

\* the check of the diff path left out
NotPowerOnNeverChecked(filePath) == FALSE

\* !isPowerOnFile(filePath)
NotPowerOn(filePath) == ~PowerOnFiles[filePath]

\* the comparison written with the wrong letter case
IsDeletedLowerCase(status) == status = <<"d">>

\* status === 'D'
IsDeleted(status) == status = <<"D">>

\* every code that is not A taken for a modification
NormalizeStatusNoPassThrough(status) ==
  IF status = <<"A">> THEN <<"added">> ELSE <<"modified">>

\* status === 'A' ? 'added' : status === 'M' ? 'modified' : status
NormalizeStatus(status) ==
  IF status = <<"A">> THEN <<"added">>
  ELSE IF status = <<"M">> THEN <<"modified">>
  ELSE status

\* one iteration of the loop over the diff lines
DiffLine ==
  /\ pc = "diffLoop"
  /\ lineIdx <= Len(lines)
  /\ LET parts == DiffFields[lines[lineIdx]]
         status == parts[1]
         filePath == parts[2]
         skipReason == SkipReasons[filePath]
         Skip(reason) ==
           /\ skipped' = Append(skipped, [line |-> lineIdx, reason |-> reason])
           /\ UNCHANGED <<files, origin>>
         Excluded ==
           /\ trace' = SkipPolicyCalls(trace, TRUE, filePath)
           /\ UNCHANGED reads
     IN  IF Len(parts) < 2
           THEN UNCHANGED <<files, origin, reads, skipped, trace>>
         ELSE IF IsDeleted(status)
           THEN Skip(<<"file was deleted">>) /\ Excluded
         ELSE IF IsIgnored(config.ignoreList, filePath)
           THEN Skip(<<"in ignore list">>) /\ Excluded
         ELSE IF NotPowerOn(filePath)
           THEN Skip(<<"not a PowerOn file">>) /\ Excluded
         ELSE /\ reads' = IF ReadsFile(filePath) THEN reads \cup {filePath} ELSE reads
              /\ trace' = SkipPolicyCalls(trace, FALSE, filePath)
              /\ IF Skips(skipReason)
                   THEN Skip(skipReason)
                   ELSE /\ files' = PushFile(files, [filePath |-> filePath,
                                                   status |-> NormalizeStatus(status)])
                        /\ origin' = Append(origin, lineIdx)
                        /\ UNCHANGED skipped
  /\ lineIdx' = lineIdx + 1
  /\ pc' = IF lineIdx' > Len(lines) THEN "gotFiles" ELSE "diffLoop"
  /\ UNCHANGED <<config, inputs, repoRefs, revParsed, variantIdx, resolvedBranch, diffRef,
                 lines, dispatcherVars, result, thrown>>

----------------------------------------------------------------------------
(* validatePowerOns: empty change set, transport selection *)

ZeroResult ==
  [filesValidated |-> 0, filesPassed |-> 0, filesFailed |-> 0,
   errors |-> <<>>, validatedFiles |-> <<>>]

\* the early return left out
IsEmptyNeverTaken(fs) == FALSE

\* files.length === 0
IsEmpty(fs) == Len(fs) = 0

ReturnEmpty ==
  /\ pc = "gotFiles"
  /\ IsEmpty(files)
  /\ result' = <<ZeroResult>>
  /\ pc' = "done"
  /\ UNCHANGED <<config, inputs, trace, resolverVars, dispatcherVars, thrown>>

\* the HTTPS transport taken whatever the connection type
UsesHTTPsAlways(cfg) == TRUE

\* if (config.connectionType === 'https') ... else ...
UsesHTTPs(cfg) == cfg.connectionType = "https"

\* validateWithHTTPs up to its loop: new SymitarHTTPs(...), try {
DispatchHTTPs ==
  /\ pc = "gotFiles"
  /\ ~IsEmpty(files)
  /\ UsesHTTPs(config)
  /\ trace' = Append(trace, [op |-> "new SymitarHTTPs", arg |-> <<>>])
  /\ clients' = Append(clients, "https")
  /\ enteredLoop' = TRUE
  /\ pc' = "loop"
  /\ UNCHANGED <<config, inputs, resolverVars, workers, idx, errors, validatedFiles, filesFailed,
                 started, receivers, inflight, settled, endCalls, pending, result, thrown>>

\* the client used at once, its readiness not awaited
IsReadyPcNoAwait == "createValidateWorker"

\* await client.isReady: validateWithSSH stands still until the promise settles
IsReadyPc == "isReady"

\* validateWithSSH up to await client.isReady
DispatchSSH ==
  /\ pc = "gotFiles"
  /\ ~IsEmpty(files)
  /\ ~UsesHTTPs(config)
  /\ trace' = Append(trace, [op |-> "new SymitarSSH", arg |-> <<>>])
  /\ clients' = Append(clients, "ssh")
  /\ pc' = IsReadyPc
  /\ UNCHANGED <<config, inputs, resolverVars, workers, enteredLoop, idx, errors, validatedFiles,
                 filesFailed, started, receivers, inflight, settled, endCalls, pending, result, thrown>>

----------------------------------------------------------------------------
(* validateWithSSH: session setup *)

\* the finally block left out
EndNotCalled(n) == n

\* client.end() is called once more
EndCalled(n) == n + 1

\* client.isReady has resolved: on to the try block
IsReadyResolves ==
  /\ pc = "isReady"
  /\ trace' = Append(trace, [op |-> "isReady resolved", arg |-> <<>>])
  /\ pc' = "createValidateWorker"
  /\ UNCHANGED <<config, inputs, resolverVars, dispatcherVars, result, thrown>>

\* await client.isReady stands before the try block
IsReadyRejects ==
  /\ pc = "isReady"
  /\ thrown' = << <<"SSH connection failed">> >>
  /\ pc' = "done"
  /\ UNCHANGED <<config, inputs, trace, resolverVars, dispatcherVars, result>>

CreateWorkerResolves ==
  /\ pc = "createValidateWorker"
  /\ trace' = Append(trace, [op |-> "createValidateWorker", arg |-> <<>>])
  /\ workers' = workers + 1
  /\ enteredLoop' = TRUE
  /\ pc' = "loop"
  /\ UNCHANGED <<config, inputs, resolverVars, clients, idx, errors, validatedFiles, filesFailed,
                 started, receivers, inflight, settled, endCalls, pending, result, thrown>>

\* the rejection caught and turned into the result of a run without files
WorkerRejectionSwallowed(e) == [kind |-> "return", value |-> ZeroResult]

\* no catch around await client.createValidateWorker(...): the rejection is what the
\* try block ends with
WorkerRejection(e) == [kind |-> "throw", value |-> e]

\* the rejection leaves the try block through finally { await client.end() }
CreateWorkerRejects ==
  /\ pc = "createValidateWorker"
  /\ trace' = trace \o << [op |-> "createValidateWorker", arg |-> <<>>],
                          [op |-> "createValidateWorker rejected",
                           arg |-> <<"worker creation failed">>],
                          [op |-> "end", arg |-> <<>>] >>
  /\ workers' = workers + 1
  /\ endCalls' = EndCalled(endCalls)
  /\ pending' = <<WorkerRejection(<<"worker creation failed">>)>>
  /\ pc' = "awaitEnd"
  /\ UNCHANGED <<config, inputs, resolverVars, clients, enteredLoop, idx, errors, validatedFiles,
                 filesFailed, started, receivers, inflight, settled, result, thrown>>

----------------------------------------------------------------------------
(* The file loop of validateWithHTTPs and validateWithSSH *)

\* what validatePowerOn can resolve to
ValidateResults ==
  { [isValid |-> TRUE,  isArray |-> TRUE,  list |-> <<>>, text |-> <<>>],
    [isValid |-> FALSE, isArray |-> TRUE,
     list |-> << <<"Syntax error on line 5">>, <<"Invalid command">> >>, text |-> <<>>],
    [isValid |-> FALSE, isArray |-> FALSE, list |-> <<>>, text |-> <<"Invalid command">>] }

\* what validatePowerOn can reject with
ThrownValues ==
  { [isError |-> TRUE,  message |-> <<"Connection timeout">>, type |-> "object"],
    [isError |-> FALSE, message |-> <<"boom">>, type |-> "string"] }

\* String(value)
StringOf(v) ==
  CASE v.type = "string" -> v.message
    [] OTHER -> <<"Error", ": ">> \o v.message

\* the list joined with ", " instead of a newline
InvalidMessageCommaJoined(r) == IF r.isArray THEN Join(r.list, ", ") ELSE r.text

\* Array.isArray(result.errors) ? result.errors.join('\n') : result.errors
InvalidMessage(r) == IF r.isArray THEN Join(r.list, "\n") ELSE r.text

\* String(error) for every thrown value
ThrownMessageStringOnly(e) == StringOf(e)

\* error instanceof Error ? error.message : String(error)
ThrownMessage(e) == IF e.isError THEN e.message ELSE StringOf(e)

\* the entry without the file it belongs to
ErrorEntryUnattributed(fileName, errorMsg) == errorMsg

\* `${fileName}: ${errorMsg}`
ErrorEntry(fileName, errorMsg) == fileName \o <<": ">> \o errorMsg

\* an iterator that skips every other file
NextIdxSkipping(i) == i + 2

\* the for-of iterator moves to the next file
NextIdx(i) == i + 1

\* the call without await: the loop goes on while the call is in flight
ValidateCallPcNoAwait == "loop"

\* await ...validatePowerOn(file.filePath): the loop stands still until the call settles
ValidateCallPc == "awaitValidate"

\* a catch block that records the error without counting the file
FailedAfterThrowNotCounted(n) == n

\* filesFailed++ of the catch block
FailedAfterThrow(n) == n + 1

\* the whole path pushed instead of the basename
PushedWholePath(list, filePath) == Append(list, filePath)

\* validatedFiles.push(fileName)
Pushed(list, filePath) == Append(list, Basenames[filePath])

\* client.validatePowerOn(...) in validateWithHTTPs, worker.validatePowerOn(...) in
\* validateWithSSH, worker being what the createValidateWorker call of this run gave
Receiver ==
  IF clients[Len(clients)] = "https"
    THEN [kind |-> "client", id |-> Len(clients)]
    ELSE [kind |-> "worker", id |-> workers]

\* loop head up to the call of validatePowerOn
StartValidate ==
  /\ pc = "loop"
  /\ NextIdx(idx) <= Len(files)
  /\ idx' = NextIdx(idx)
  /\ trace' = Append(trace, [op |-> "validatePowerOn", arg |-> files[idx'].filePath])
  /\ validatedFiles' = Pushed(validatedFiles, files[idx'].filePath)
  /\ started' = Append(started, files[idx'].filePath)
  /\ receivers' = Append(receivers, Receiver)
  /\ inflight' = inflight \cup {Len(started')}
  /\ pc' = ValidateCallPc
  /\ UNCHANGED <<config, inputs, resolverVars, clients, workers, enteredLoop, errors, filesFailed,
                 settled, endCalls, pending, result, thrown>>

\* a loop whose every iteration asks the client for a worker of its own
NextIterationPcNewWorker == "createValidateWorker"

\* end of the loop body: the for-of loop goes to its next iteration
NextIterationPc == "loop"

\* the call resolves: if (!result.isValid) { ... }
ValidateResolves ==
  /\ pc = "awaitValidate"
  /\ \E r \in ValidateResults :
       /\ settled' = Append(settled, [call |-> Len(started), kind |-> "resolved",
                                      failed |-> ~r.isValid, value |-> r])
       /\ IF ~r.isValid
            THEN /\ filesFailed' = filesFailed + 1
                 /\ errors' = Append(errors, ErrorEntry(Basenames[files[idx].filePath],
                                                        InvalidMessage(r)))
            ELSE UNCHANGED <<filesFailed, errors>>
  /\ inflight' = inflight \ {Len(started)}
  /\ pc' = NextIterationPc
  /\ UNCHANGED <<config, inputs, trace, resolverVars, clients, workers, enteredLoop, idx, validatedFiles,
                 started, receivers, endCalls, pending, result, thrown>>

\* the call rejects: catch (error) { ... }
ValidateRejects ==
  /\ pc = "awaitValidate"
  /\ \E e \in ThrownValues :
       /\ settled' = Append(settled, [call |-> Len(started), kind |-> "rejected",
                                      failed |-> TRUE, value |-> e])
       /\ filesFailed' = FailedAfterThrow(filesFailed)
       /\ errors' = Append(errors, ErrorEntry(Basenames[files[idx].filePath], ThrownMessage(e)))
  /\ inflight' = inflight \ {Len(started)}
  /\ pc' = NextIterationPc
  /\ UNCHANGED <<config, inputs, trace, resolverVars, clients, workers, enteredLoop, idx, validatedFiles,
                 started, receivers, endCalls, pending, result, thrown>>

\* return { filesValidated: files.length, ... }
BuildResult ==
  [filesValidated |-> Len(files),
   filesPassed |-> Len(files) - filesFailed,
   filesFailed |-> filesFailed,
   errors |-> errors,
   validatedFiles |-> validatedFiles]

\* no dispatcher waits for client.end()
AwaitsEndNever(transport) == FALSE

\* finally { await client.end() } in validateWithSSH, finally { client.end() } in
\* validateWithHTTPs
AwaitsEnd(transport) == transport = "ssh"

\* validateWithHTTPs: loop over, return, finally { client.end() } is not awaited
LoopDoneHTTPs ==
  /\ pc = "loop"
  /\ trace' = Append(trace, [op |-> "end", arg |-> <<>>])
  /\ NextIdx(idx) > Len(files)
  /\ ~AwaitsEnd(clients[Len(clients)])
  /\ endCalls' = EndCalled(endCalls)
  /\ result' = <<BuildResult>>
  /\ pc' = "done"
  /\ UNCHANGED <<config, inputs, resolverVars, clients, workers, enteredLoop, idx, errors,
                 validatedFiles, filesFailed, started, receivers, inflight, settled, pending, thrown>>

\* validateWithSSH: loop over, return, finally { await client.end() }
LoopDoneSSH ==
  /\ pc = "loop"
  /\ trace' = Append(trace, [op |-> "end", arg |-> <<>>])
  /\ NextIdx(idx) > Len(files)
  /\ AwaitsEnd(clients[Len(clients)])
  /\ endCalls' = EndCalled(endCalls)
  /\ pending' = <<[kind |-> "return", value |-> BuildResult]>>
  /\ pc' = "awaitEnd"
  /\ UNCHANGED <<config, inputs, resolverVars, clients, workers, enteredLoop, idx, errors,
                 validatedFiles, filesFailed, started, receivers, inflight, settled, result, thrown>>

\* client.end() has resolved: the return or throw of the try block takes effect
EndResolves ==
  /\ pc = "awaitEnd"
  /\ IF pending[1].kind = "return"
       THEN result' = <<pending[1].value>> /\ UNCHANGED thrown
       ELSE thrown' = <<pending[1].value>> /\ UNCHANGED result
  /\ trace' = Append(trace, [op |-> "end resolved", arg |-> <<>>])
  /\ pending' = <<>>
  /\ pc' = "done"
  /\ UNCHANGED <<config, inputs, resolverVars, clients, workers, enteredLoop, idx, errors,
                 validatedFiles, filesFailed, started, receivers, inflight, settled, endCalls>>

\* the completion of the try block kept although the finally block threw
AfterEndRejectsKeepsPending(pend, e) == pend

\* a finally block that throws: its error takes the place of the try block's
\* return or throw
AfterEndRejects(pend, e) == [kind |-> "throw", value |-> e]

\* the awaited client.end() has rejected
EndRejects ==
  /\ pc = "awaitEnd"
  /\ LET e == <<"teardown failed">>
         after == AfterEndRejects(pending[1], e)
     IN  /\ trace' = Append(trace, [op |-> "end rejected", arg |-> e])
         /\ IF after.kind = "return"
              THEN result' = <<after.value>> /\ UNCHANGED thrown
              ELSE thrown' = <<after.value>> /\ UNCHANGED result
  /\ pending' = <<>>
  /\ pc' = "done"
  /\ UNCHANGED <<config, inputs, resolverVars, clients, workers, enteredLoop, idx, errors,
                 validatedFiles, filesFailed, started, receivers, inflight, settled, endCalls>>

\* client.end() that nobody waits for settles, one way or the other, after the
\* dispatcher has returned
EndSettlesUnawaited ==
  /\ pc = "done"
  /\ clients # <<>>
  /\ ~AwaitsEnd(clients[Len(clients)])
  /\ endCalls > 0
  /\ \A i \in 1..Len(trace) : trace[i].op \notin {"end resolved", "end rejected"}
  /\ \E how \in {"end resolved", "end rejected"} :
       trace' = Append(trace, [op |-> how, arg |-> <<>>])
  /\ UNCHANGED <<config, inputs, pc, resolverVars, dispatcherVars, result, thrown>>

----------------------------------------------------------------------------
(* The variant of validator.ts in which, without a target branch, the change   *)
(* set comes from the client: validateWithHTTPs(config, null) and              *)
(* validateWithSSH(config, null). The file loop is the one above.              *)

\* what client.getChangedFiles(localDirectory) can resolve to
HostChangedFiles ==
  [deployed : Outputs({ <<"REPWRITERSPECS", "/", "FILE1", ".PO">>,
                        <<"REPWRITERSPECS", "/", "FILE2", ".PO">>,
                        <<"REPWRITERSPECS", "/", "UTILS", ".DEF">>,
                        <<"REPWRITERSPECS", "/", "NOTARGET", ".PO">> }),
   deleted : {<<>>, << <<"REPWRITERSPECS", "/", "REMOVED", ".PO">> >>}]

\* validatePowerOns, no target branch: return validateWithHTTPs(config, null)
HostDispatchHTTPs ==
  /\ pc = "getChangedFiles"
  /\ config.targetBranch = NoBranch
  /\ UsesHTTPs(config)
  /\ trace' = Append(trace, [op |-> "new SymitarHTTPs", arg |-> <<>>])
  /\ clients' = Append(clients, "https")
  /\ pc' = "hostGetChangedFiles"
  /\ UNCHANGED <<config, inputs, resolverVars, workers, enteredLoop, idx, errors, validatedFiles,
                 filesFailed, started, receivers, inflight, settled, endCalls, pending, result, thrown>>

\* validatePowerOns, no target branch: return validateWithSSH(config, null)
HostDispatchSSH ==
  /\ pc = "getChangedFiles"
  /\ config.targetBranch = NoBranch
  /\ ~UsesHTTPs(config)
  /\ trace' = Append(trace, [op |-> "new SymitarSSH", arg |-> <<>>])
  /\ clients' = Append(clients, "ssh")
  /\ pc' = "hostIsReady"
  /\ UNCHANGED <<config, inputs, resolverVars, workers, enteredLoop, idx, errors, validatedFiles,
                 filesFailed, started, receivers, inflight, settled, endCalls, pending, result, thrown>>

HostIsReadyResolves ==
  /\ pc = "hostIsReady"
  /\ trace' = Append(trace, [op |-> "isReady resolved", arg |-> <<>>])
  /\ pc' = "hostGetChangedFiles"
  /\ UNCHANGED <<config, inputs, resolverVars, dispatcherVars, result, thrown>>

HostIsReadyRejects ==
  /\ pc = "hostIsReady"
  /\ thrown' = << <<"SSH connection failed">> >>
  /\ pc' = "done"
  /\ UNCHANGED <<config, inputs, trace, resolverVars, dispatcherVars, result>>

\* the list of the client's answer that is not the one to validate
DeployedOfDeleted(changedPowerOns) == changedPowerOns.deleted

\* changedPowerOns.deployed
DeployedOf(changedPowerOns) == changedPowerOns.deployed

\* await client.getChangedFiles(...) resolves
HostGetChangedFilesResolves ==
  /\ pc = "hostGetChangedFiles"
  /\ \E changedPowerOns \in HostChangedFiles :
       /\ trace' = Append(trace, [op |-> "client.getChangedFiles", arg |-> changedPowerOns])
       /\ lines' = DeployedOf(changedPowerOns)
  /\ lineIdx' = 1
  /\ pc' = IF lines' = <<>> THEN "hostFiltered" ELSE "hostLoop"
  /\ UNCHANGED <<config, inputs, repoRefs, revParsed, variantIdx, resolvedBranch, diffRef,
                 files, origin, reads, skipped, dispatcherVars, result, thrown>>

\* the try block is left through finally: HTTPS does not await client.end(), SSH does
LeaveTry(kind, value) ==
  /\ trace' = Append(trace, [op |-> "end", arg |-> <<>>])
  /\ endCalls' = EndCalled(endCalls)
  /\ IF ~AwaitsEnd(clients[Len(clients)])
       THEN /\ pc' = "done"
            /\ IF kind = "return"
                 THEN result' = <<value>> /\ UNCHANGED thrown
                 ELSE thrown' = <<value>> /\ UNCHANGED result
            /\ UNCHANGED pending
       ELSE /\ pc' = "awaitEnd"
            /\ pending' = <<[kind |-> kind, value |-> value]>>
            /\ UNCHANGED <<result, thrown>>

\* await client.getChangedFiles(...) rejects
HostGetChangedFilesRejects ==
  /\ pc = "hostGetChangedFiles"
  /\ LeaveTry("throw", <<"comparison with the host failed">>)
  /\ UNCHANGED <<config, inputs, resolverVars, clients, workers, enteredLoop, idx, errors,
                 validatedFiles, filesFailed, started, receivers, inflight, settled>>

\* filesToValidate.push({ filePath, status: 'changed' })
ChangedStatus == <<"changed">>

\* one iteration of the loop over changedPowerOns.deployed
HostLine ==
  /\ pc = "hostLoop"
  /\ lineIdx <= Len(lines)
  /\ LET filePath == lines[lineIdx]
         skipReason == SkipReasons[filePath]
     IN  IF IsIgnored(config.ignoreList, filePath)
           THEN /\ skipped' = Append(skipped, [line |-> lineIdx, reason |-> <<"in ignore list">>])
                /\ trace' = SkipPolicyCalls(trace, TRUE, filePath)
                /\ UNCHANGED <<files, origin, reads>>
           ELSE /\ reads' = IF ReadsFile(filePath) THEN reads \cup {filePath} ELSE reads
                /\ trace' = SkipPolicyCalls(trace, FALSE, filePath)
                /\ IF Skips(skipReason)
                     THEN /\ skipped' = Append(skipped, [line |-> lineIdx, reason |-> skipReason])
                          /\ UNCHANGED <<files, origin>>
                     ELSE /\ files' = PushFile(files, [filePath |-> filePath, status |-> ChangedStatus])
                          /\ origin' = Append(origin, lineIdx)
                          /\ UNCHANGED skipped
  /\ lineIdx' = lineIdx + 1
  /\ pc' = IF lineIdx' > Len(lines) THEN "hostFiltered" ELSE "hostLoop"
  /\ UNCHANGED <<config, inputs, repoRefs, revParsed, variantIdx, resolvedBranch, diffRef,
                 lines, dispatcherVars, result, thrown>>

\* filesToValidate.length === 0: return the zero result from inside the try block
HostReturnEmpty ==
  /\ pc = "hostFiltered"
  /\ IsEmpty(files)
  /\ LeaveTry("return", ZeroResult)
  /\ UNCHANGED <<config, inputs, resolverVars, clients, workers, enteredLoop, idx, errors,
                 validatedFiles, filesFailed, started, receivers, inflight, settled>>

\* on to the file loop (HTTPS) or to createValidateWorker (SSH)
HostProceed ==
  /\ pc = "hostFiltered"
  /\ ~IsEmpty(files)
  /\ IF clients[Len(clients)] = "https"
       THEN enteredLoop' = TRUE /\ pc' = "loop"
       ELSE UNCHANGED enteredLoop /\ pc' = "createValidateWorker"
  /\ UNCHANGED <<config, inputs, trace, resolverVars, clients, workers, idx, errors, validatedFiles,
                 filesFailed, started, receivers, inflight, settled, endCalls, pending, result, thrown>>

InitHost == Init /\ config.targetBranch = NoBranch

NextHost ==
  \/ CallValidateApiKey
  \/ ValidateApiKeyOk
  \/ ValidateApiKeyFails
  \/ HostDispatchHTTPs
  \/ HostDispatchSSH
  \/ HostIsReadyResolves
  \/ HostIsReadyRejects
  \/ HostGetChangedFilesResolves
  \/ HostGetChangedFilesRejects
  \/ HostLine
  \/ HostReturnEmpty
  \/ HostProceed
  \/ CreateWorkerResolves
  \/ CreateWorkerRejects
  \/ StartValidate
  \/ ValidateResolves
  \/ ValidateRejects
  \/ LoopDoneHTTPs
  \/ LoopDoneSSH
  \/ EndResolves

SpecHost == InitHost /\ [][NextHost]_vars

----------------------------------------------------------------------------
Next ==
  \/ CallValidateApiKey
  \/ ValidateApiKeyOk
  \/ ValidateApiKeyFails
  \/ Find
  \/ ScanLine
  \/ RevParse
  \/ BranchNotFound
  \/ Diff
  \/ DiffLine
  \/ ReturnEmpty
  \/ DispatchHTTPs
  \/ DispatchSSH
  \/ IsReadyResolves
  \/ IsReadyRejects
  \/ CreateWorkerResolves
  \/ CreateWorkerRejects
  \/ StartValidate
  \/ ValidateResolves
  \/ ValidateRejects
  \/ LoopDoneHTTPs
  \/ LoopDoneSSH
  \/ EndResolves

Spec == Init /\ [][Next]_vars

\* every call to a collaborator returns or throws in the end: no step that can be taken
\* is put off for ever
SpecLive == Init /\ [][Next]_vars /\ WF_vars(Next)

\* the runs in which client.end() may fail as well
NextTeardown ==
  \/ Next
  \/ EndRejects
  \/ EndSettlesUnawaited

SpecTeardown == Init /\ [][NextTeardown]_vars

----------------------------------------------------------------------------
(* main.ts: run(), the entry point of the action, around validatePowerOns *)

\* what the workflow can give as connection-type, target-branch and validate-ignore
ActionInputs ==
  [connectionType : {<<>>, <<"https">>, <<"ssh">>, <<"invalid">>},
   targetBranch : TargetBranches,
   validateIgnore : {<<>>, <<" ", "FILE2", ".PO", ",", " ">>}]

\* the config before run() has built it
NoConfig == <<>>

\* core.getInput('connection-type', { required: false }) || 'ssh'
ConnectionTypeOf(raw) == IF raw = <<>> THEN <<"ssh">> ELSE raw

\* a check that lets every connection type through
InvalidConnectionTypeNeverChecked(connectionType) == FALSE

\* connectionType !== 'https' && connectionType !== 'ssh'
InvalidConnectionType(connectionType) ==
  connectionType # <<"https">> /\ connectionType # <<"ssh">>

\* validateIgnore.split(',').map((f) => f.trim()).filter((f) => f.length > 0)
ParseIgnoreList(validateIgnore) ==
  LET parts == SplitOn(validateIgnore, ",")
  IN  {Trim(parts[i]) : i \in 1..Len(parts)} \ {<<>>}

\* `Invalid connection type: ${connectionType}. Must be "https" or "ssh"`
InvalidConnectionTypeMessage(connectionType) ==
  <<"Invalid connection type: ">> \o connectionType \o <<". Must be \"https\" or \"ssh\"">>

\* the state in which run() is called
InitRun ==
  /\ inputs \in ActionInputs
  /\ config = NoConfig
  /\ pc = "run"
  /\ repoRefs = [ok |-> {}, bad |-> {}]
  /\ revParsed = <<>>
  /\ variantIdx = 1
  /\ resolvedBranch = <<>>
  /\ diffRef = <<>>
  /\ lines = <<>>
  /\ lineIdx = 1
  /\ files = <<>>
  /\ origin = <<>>
  /\ reads = {}
  /\ skipped = <<>>
  /\ clients = <<>>
  /\ workers = 0
  /\ enteredLoop = FALSE
  /\ idx = 0
  /\ errors = <<>>
  /\ validatedFiles = <<>>
  /\ filesFailed = 0
  /\ started = <<>>
  /\ receivers = <<>>
  /\ inflight = {}
  /\ settled = <<>>
  /\ endCalls = 0
  /\ pending = <<>>
  /\ result = <<>>
  /\ thrown = <<>>
  /\ trace = <<>>

\* the connection type is neither https nor ssh: throw, caught by run()'s own catch
RunRejectsConnectionType ==
  /\ pc = "run"
  /\ LET connectionType == ConnectionTypeOf(inputs.connectionType)
     IN  /\ InvalidConnectionType(connectionType)
         /\ trace' = Append(trace, [op |-> "setFailed",
                                    arg |-> InvalidConnectionTypeMessage(connectionType)])
  /\ pc' = "exited"
  /\ UNCHANGED <<config, inputs, resolverVars, dispatcherVars, result, thrown>>

\* run() up to await validatePowerOns({...})
RunCallsValidatePowerOns ==
  /\ pc = "run"
  /\ LET connectionType == ConnectionTypeOf(inputs.connectionType)
     IN  /\ ~InvalidConnectionType(connectionType)
         /\ config' = [connectionType |-> connectionType[1],
                       targetBranch |-> inputs.targetBranch,
                       ignoreList |-> ParseIgnoreList(inputs.validateIgnore),
                       apiKey |-> "test-api-key",
                       symitarHostname |-> "test.symitar.example.com"]
  /\ pc' = "start"
  /\ UNCHANGED <<inputs, trace, resolverVars, dispatcherVars, result, thrown>>

\* files-passed given the number of files validated
SetOutputsPassedAsValidated(t, r) ==
  t \o << [op |-> "setOutput", arg |-> [name |-> "files-validated", value |-> r.filesValidated]],
          [op |-> "setOutput", arg |-> [name |-> "files-passed", value |-> r.filesValidated]],
          [op |-> "setOutput", arg |-> [name |-> "files-failed", value |-> r.filesFailed]] >>

\* the three core.setOutput calls that carry the counts
SetOutputs(t, r) ==
  t \o << [op |-> "setOutput", arg |-> [name |-> "files-validated", value |-> r.filesValidated]],
          [op |-> "setOutput", arg |-> [name |-> "files-passed", value |-> r.filesPassed]],
          [op |-> "setOutput", arg |-> [name |-> "files-failed", value |-> r.filesFailed]] >>

\* the action failed on every result, a clean one too
MarksFailedAlways(r) == TRUE

\* if (result.filesFailed > 0) { ... core.setFailed(...) }
MarksFailed(r) == r.filesFailed > 0

\* validatePowerOns has returned: outputs, summary, setFailed when files failed
RunAfterReturn ==
  /\ pc = "done"
  /\ result # <<>>
  /\ trace' = IF MarksFailed(result[1])
                THEN Append(SetOutputs(trace, result[1]),
                            [op |-> "setFailed", arg |-> [found |-> result[1].filesFailed]])
                ELSE SetOutputs(trace, result[1])
  /\ pc' = "exited"
  /\ UNCHANGED <<config, inputs, resolverVars, dispatcherVars, result, thrown>>

\* validatePowerOns has thrown: catch (error) { core.setFailed(...) }
RunCatches ==
  /\ pc = "done"
  /\ thrown # <<>>
  /\ trace' = Append(trace, [op |-> "setFailed", arg |-> thrown[1]])
  /\ pc' = "exited"
  /\ UNCHANGED <<config, inputs, resolverVars, dispatcherVars, result, thrown>>

NextRun ==
  \/ RunRejectsConnectionType
  \/ RunCallsValidatePowerOns
  \/ Next
  \/ RunAfterReturn
  \/ RunCatches

SpecRun == InitRun /\ [][NextRun]_vars

----------------------------------------------------------------------------
(* Properties *)

Returned == pc = "done" /\ result # <<>>

\* pre is how s begins
HasPrefix(s, pre) == Len(pre) <= Len(s) /\ SubSeq(s, 1, Len(pre)) = pre

\* b is the last path component of p
IsBasenameOf(b, p) ==
  /\ Len(b) <= Len(p)
  /\ SubSeq(p, Len(p) - Len(b) + 1, Len(p)) = b
  /\ \A i \in 1..Len(b) : b[i] # "/"
  /\ Len(b) = Len(p) \/ p[Len(p) - Len(b)] = "/"

Failed(s) == s.failed
Rejected(s) == s.kind = "rejected"

\* the settled calls that failed, in call order
FailedCalls == SelectSeq(settled, Failed)

\* C1: every ValidationResult returned satisfies
\* filesValidated = filesPassed + filesFailed = |validatedFiles| and |errors| = filesFailed.
C1_ResultCounts ==
  \A i \in 1..Len(result) :
    /\ result[i].filesValidated = result[i].filesPassed + result[i].filesFailed
    /\ result[i].filesValidated = Len(result[i].validatedFiles)
    /\ Len(result[i].errors) = result[i].filesFailed

\* a result over a file reported invalid and a file whose call threw
C1_Witness ==
  /\ Returned
  /\ result[1].filesValidated = 2
  /\ result[1].filesFailed = 2
  /\ \E c \in 1..Len(settled) : Rejected(settled[c])
  /\ \E c \in 1..Len(settled) : settled[c].failed /\ ~Rejected(settled[c])

\* C2: once a dispatcher has entered its file loop, client.end() is called exactly
\* once by the end of the run, and only after every validatePowerOn call has settled.
C2_EndOnceAfterLastCall ==
  enteredLoop =>
    /\ endCalls <= 1
    /\ endCalls = 1 => /\ inflight = {}
                       /\ Len(started) = Len(files)
                       /\ Len(settled) = Len(files)
    /\ pc = "done" => endCalls = 1

\* a finished run whose first call rejected and whose session was ended once
C2_Witness ==
  /\ pc = "done"
  /\ enteredLoop
  /\ endCalls = 1
  /\ Len(settled) >= 2
  /\ Rejected(settled[1])

\* C3: a run that constructed a transport client has called client.end() when it is over,
\* whichever way the dispatcher was left.
C3_ReleasedOnEveryExit ==
  (pc = "done" /\ clients # <<>>) => endCalls = 1

C5_OneAtATime ==
  /\ Cardinality(inflight) <= 1
  /\ inflight \subseteq {Len(started)}
  /\ Len(started) <= Len(settled) + 1
  /\ \A c \in 1..Len(settled) : settled[c].call = c /\ c <= Len(started)

\* the second call is in flight and the first has settled
C5_Witness ==
  /\ inflight = {2}
  /\ Len(settled) = 1

\* C6: validatedFiles holds the basename of every candidate, in candidate order, whatever
\* the outcome of each file, and validatePowerOn is called on the candidates in that order.
C6_ValidatedFilesInOrder ==
  /\ Len(validatedFiles) = Len(started)
  /\ \A k \in 1..Len(started) :
       /\ k <= Len(files)
       /\ started[k] = files[k].filePath
       /\ IsBasenameOf(validatedFiles[k], files[k].filePath)
  /\ (pc = "done" /\ enteredLoop) =>
       /\ Len(result) = 1
       /\ Len(result[1].validatedFiles) = Len(files)
       /\ result[1].validatedFiles = validatedFiles

\* a result over two candidates in different directories, the first of which threw
C6_Witness ==
  /\ Returned
  /\ Len(files) = 2
  /\ Len(files[2].filePath) > Len(files[1].filePath)
  /\ Rejected(settled[1])
  /\ ~settled[2].failed

\* C7: errors has one entry per failed file and none for a passed one, in candidate
\* order, the k-th entry beginning with the basename of the k-th failing candidate and ": ".
C7_ErrorsAttributed ==
  /\ Len(errors) = Len(FailedCalls)
  /\ \A k \in 1..Len(errors) :
       \E b \in {validatedFiles[FailedCalls[k].call]} :
         /\ IsBasenameOf(b, files[FailedCalls[k].call].filePath)
         /\ HasPrefix(errors[k], b \o <<": ">>)
  /\ \A k \in 1..(Len(FailedCalls) - 1) : FailedCalls[k].call < FailedCalls[k + 1].call
  /\ \A i \in 1..Len(result) : Len(files) # 0 => result[i].errors = errors

\* a result where the first file passed and the second, of another basename, failed
C7_Witness ==
  /\ Returned
  /\ Len(settled) = 2
  /\ ~settled[1].failed
  /\ settled[2].failed
  /\ validatedFiles[1] # validatedFiles[2]
  /\ Len(errors) = 1

\* the message of a thrown value: its message if it is an Error, else its string form
ExpectedThrownMessage(e) ==
  IF e.isError THEN e.message
  ELSE IF e.type = "string" THEN e.message
  ELSE <<"[object Object]">>

\* C8: a validatePowerOn call that rejects makes its file a failed one, with the entry
\* "<basename>: <message>"; one passing file and one rejecting with "Connection timeout"
\* give filesPassed = 1, filesFailed = 1 and that single entry.
C8_RejectionIsFailure ==
  /\ \A k \in 1..Len(FailedCalls) :
       (Rejected(FailedCalls[k]) /\ k <= Len(errors)) =>
         errors[k] = validatedFiles[FailedCalls[k].call] \o <<": ">>
                       \o ExpectedThrownMessage(FailedCalls[k].value)
  /\ \A c \in 1..Len(settled) : Rejected(settled[c]) => settled[c].failed
  /\ Returned /\ Len(files) # 0 =>
       /\ result[1].filesFailed = Len(FailedCalls)
       /\ result[1].filesPassed = Len(settled) - Len(FailedCalls)
  /\ (Returned /\ Len(settled) = 2 /\ ~settled[1].failed /\ Rejected(settled[2])
        /\ settled[2].value.isError /\ settled[2].value.message = <<"Connection timeout">>) =>
       /\ result[1].filesPassed = 1
       /\ result[1].filesFailed = 1
       /\ result[1].errors = << validatedFiles[2] \o <<": ", "Connection timeout">> >>

\* one file passed and one rejected with the Error "Connection timeout"
C8_Witness ==
  /\ Returned
  /\ Len(settled) = 2
  /\ ~settled[1].failed
  /\ Rejected(settled[2])
  /\ settled[2].value.isError
  /\ result[1].errors = << <<"FILE2", ".PO", ": ", "Connection timeout">> >>

\* C9: a file reported isValid = false is a failed one with the single entry
\* "<basename>: <errors>", a list of errors joined with newlines; a file reported
\* isValid = true is a passed one without an entry; for both transports.
C9_InvalidIsFailure ==
  /\ \A c \in 1..Len(settled) :
       ~Rejected(settled[c]) => (settled[c].failed <=> ~settled[c].value.isValid)
  /\ Len(errors) = Len(FailedCalls)
  /\ \A k \in 1..Len(FailedCalls) :
       (~Rejected(FailedCalls[k]) /\ k <= Len(errors)) =>
         LET pre == validatedFiles[FailedCalls[k].call] \o <<": ">>
             msg == SubSeq(errors[k], Len(pre) + 1, Len(errors[k]))
             r == FailedCalls[k].value
         IN  /\ HasPrefix(errors[k], pre)
             /\ r.isArray /\ r.list # <<>> => SplitOn(msg, "\n") = r.list
             /\ r.isArray /\ r.list = <<>> => msg = <<>>
             /\ ~r.isArray => msg = r.text
  /\ Returned /\ Len(files) # 0 =>
       /\ result[1].filesFailed = Len(FailedCalls)
       /\ result[1].filesPassed = Len(settled) - Len(FailedCalls)

\* over HTTPS, a file reported invalid with a list of two errors, and a file reported valid
C9_Witness ==
  /\ Returned
  /\ clients = <<"https">>
  /\ Len(settled) = 2
  /\ ~Rejected(settled[1]) /\ settled[1].failed /\ Len(settled[1].value.list) = 2
  /\ ~settled[2].failed
  /\ Len(errors) = 1

\* C10: in diff mode no candidate comes from a diff line of status D, validatePowerOn is
\* called on candidates only, and the diff M FILE1.PO + D DELETED.PO gives filesValidated = 1.
C10_DeletedNeverCandidate ==
  config.targetBranch # NoBranch =>
    /\ \A k \in 1..Len(files) :
         /\ origin[k] \in 1..Len(lines)
         /\ LET parts == SplitOn(lines[origin[k]], "\t")
            IN  parts[1] # <<"D">> /\ parts[2] = files[k].filePath
    /\ \A c \in 1..Len(started) :
         \E k \in 1..Len(files) : files[k].filePath = started[c]
    /\ (Returned
          /\ lines = << <<"M", "\t", "REPWRITERSPECS", "/", "FILE1", ".PO">>,
                        <<"D", "\t", "REPWRITERSPECS", "/", "DELETED", ".PO">> >>) =>
         result[1].filesValidated = 1

\* the run over the diff M FILE1.PO + D DELETED.PO has returned
C10_Witness ==
  /\ Returned
  /\ config.targetBranch # NoBranch
  /\ lines = << <<"M", "\t", "REPWRITERSPECS", "/", "FILE1", ".PO">>,
                <<"D", "\t", "REPWRITERSPECS", "/", "DELETED", ".PO">> >>
  /\ started = << <<"REPWRITERSPECS", "/", "FILE1", ".PO">> >>

\* the positions of the trace where op was called
CallsOf(op) == {i \in 1..Len(trace) : trace[i].op = op}

\* a transport client was constructed
ClientConstructed ==
  \/ clients # <<>>
  \/ CallsOf("new SymitarHTTPs") # {}
  \/ CallsOf("new SymitarSSH") # {}

\* C11: whatever the mode, no candidate and no path passed to validatePowerOn has a
\* basename that is in the ignore list.
C11_IgnoredNeverCandidate ==
  \A b \in config.ignoreList :
    /\ \A k \in 1..Len(files) : ~IsBasenameOf(b, files[k].filePath)
    /\ \A c \in 1..Len(started) : ~IsBasenameOf(b, started[c])

\* a diff that lists an ignored file next to another one has been validated
C11_Witness ==
  /\ Returned
  /\ config.ignoreList = {<<"FILE2", ".PO">>}
  /\ lines = << <<"A", "\t", "REPWRITERSPECS", "/", "FILE2", ".PO">>,
                <<"M", "\t", "REPWRITERSPECS", "/", "FILE1", ".PO">> >>
  /\ started = << <<"REPWRITERSPECS", "/", "FILE1", ".PO">> >>

C13_ApiKeyFailureAborts ==
  CallsOf("validateApiKey rejected") # {} =>
    /\ pc = "done"
    /\ Len(trace) = 2
    /\ trace[2].op = "validateApiKey rejected"
    /\ thrown = <<trace[2].arg>>
    /\ result = <<>>
    /\ revParsed = <<>> /\ diffRef = <<>> /\ lines = <<>>
    /\ reads = {}
    /\ ~ClientConstructed
    /\ started = <<>>

\* validateApiKey has rejected
C13_Witness ==
  /\ pc = "done"
  /\ thrown = << <<"Invalid API key">> >>
  /\ CallsOf("validateApiKey rejected") = {2}

\* the trace holds something else than the credential check
OtherExternalAction ==
  \E i \in 1..Len(trace) :
    trace[i].op \notin {"validateApiKey", "validateApiKey resolved", "validateApiKey rejected"}

\* C14: validateApiKey is called once, first, with the configured key and hostname, and
\* has resolved before any command, file read, client construction or validatePowerOn.
C14_ApiKeyOnceAndFirst ==
  /\ pc # "start" =>
       /\ CallsOf("validateApiKey") = {1}
       /\ trace[1].arg = <<config.apiKey, config.symitarHostname>>
  /\ (\/ OtherExternalAction
      \/ revParsed # <<>> \/ diffRef # <<>> \/ lines # <<>> \/ reads # {}
      \/ clients # <<>> \/ started # <<>>) =>
       /\ Len(trace) >= 2
       /\ trace[2].op = "validateApiKey resolved"

\* a run that went through every stage has returned
C14_Witness ==
  /\ Returned
  /\ config.targetBranch # NoBranch
  /\ reads # {}
  /\ started # <<>>
  /\ CallsOf("validateApiKey") = {1}
  /\ CallsOf("exec git rev-parse") # {}
  /\ CallsOf("exec git diff") # {}

\* the order of the references to try, for the two target branches of the model
ExpectedVariants ==
  IF config.targetBranch = <<"origin/", "main">>
    THEN << <<"origin/", "main">>, <<"refs/remotes/origin/", "main">>, <<"main">>,
            <<"refs/heads/", "main">>, <<"remotes/origin/", "main">> >>
    ELSE << <<"main">>, <<"refs/remotes/origin/", "main">>, <<"main">>,
            <<"refs/heads/", "main">>, <<"remotes/origin/", "main">> >>

\* C15: the references given to git rev-parse are a prefix of the fixed order, every one
\* before the last tried did not resolve, the resolved branch is the last one tried, and
\* git diff is given exactly it.
C15_VariantsInOrder ==
  config.targetBranch # NoBranch =>
    /\ HasPrefix(ExpectedVariants, revParsed)
    /\ \A i \in 1..(Len(revParsed) - 1) : revParsed[i] \in repoRefs.bad
    /\ resolvedBranch # <<>> =>
         /\ resolvedBranch = revParsed[Len(revParsed)]
         /\ resolvedBranch \in repoRefs.ok
    /\ diffRef # <<>> =>
         /\ resolvedBranch # <<>>
         /\ diffRef = <<revParsed[Len(revParsed)]>>

\* origin/main resolved at the third reference tried, and the diff was taken against it
C15_Witness ==
  /\ config.targetBranch = <<"origin/", "main">>
  /\ revParsed = << <<"origin/", "main">>, <<"refs/remotes/origin/", "main">>, <<"main">> >>
  /\ diffRef = << <<"main">> >>
  /\ Returned

\* every reference was tried and none resolved
NoneResolved ==
  /\ config.targetBranch # NoBranch
  /\ Len(revParsed) = 5
  /\ \A i \in 1..5 : revParsed[i] \in repoRefs.bad

NotFoundError ==
  << <<"Target branch '">> \o config.targetBranch
       \o <<"' not found. Make sure you have checked out with sufficient depth (fetch-depth: 0) and the branch exists.">> >>

\* C16: when all five references were tried and none resolved, no diff is run, no file
\* is read, no client is constructed, no result is returned, and the run ends with the
\* 'not found' error; that error is raised only then.
C16_BranchNotFound ==
  /\ NoneResolved =>
       /\ diffRef = <<>> /\ CallsOf("exec git diff") = {}
       /\ reads = {} /\ CallsOf("readFile") = {}
       /\ ~ClientConstructed
       /\ started = <<>>
       /\ result = <<>>
       /\ pc \in {"checkBranch", "done"}
       /\ pc = "done" => thrown = NotFoundError
  /\ (config.targetBranch # NoBranch /\ thrown = NotFoundError) => NoneResolved

\* the run ended with the 'not found' error
C16_Witness ==
  /\ pc = "done"
  /\ NoneResolved
  /\ thrown = NotFoundError
  /\ config.targetBranch = <<"origin/", "main">>

\* the path on line i of the find or diff output
LinePath(i) ==
  IF config.targetBranch = NoBranch THEN lines[i]
  ELSE LET parts == DiffFields[lines[i]]
       IN  IF Len(parts) < 2 THEN <<>> ELSE parts[2]

\* the lines the loop over the output is done with
ProcessedLines == {i \in 1..Len(lines) : i < lineIdx}

\* getChangedFiles is at work or has just returned: lines, files and skipped change
\* nowhere else
Resolving == pc \in {"scanLoop", "diffLoop", "gotFiles"}

\* p ends in an include/procedure extension, in either letter case
HasSkippedExtension(p) == p # <<>> /\ p[Len(p)] \in {".DEF", ".def", ".PRO", ".pro"}

\* p ends in a PowerOn extension, in either letter case
HasPowerOnExtension(p) == p # <<>> /\ p[Len(p)] \in {".PO", ".po", ".DEF", ".def", ".PRO", ".pro"}

\* line i, whose path is p, got as far as getSkipReason
ReachedSkipPolicy(i, p) ==
  /\ p # <<>>
  /\ \A b \in config.ignoreList : ~IsBasenameOf(b, p)
  /\ config.targetBranch # NoBranch =>
       /\ lines[i][1] # "D"
       /\ HasPowerOnExtension(p)

CandidateOf(i, p) == \E k \in 1..Len(files) : origin[k] = i /\ files[k].filePath = p
ReasonsOf(i) == {skipped[j].reason : j \in {n \in 1..Len(skipped) : skipped[n].line = i}}

\* C17: no path with an include/procedure extension is ever read, made a candidate or
\* passed to validatePowerOn; the resolver skips the line of such a file with the
\* extension reason.
C17_SkippedExtensionNeverRead ==
  /\ \A p \in reads : ~HasSkippedExtension(p)
  /\ \A k \in 1..Len(files) : ~HasSkippedExtension(files[k].filePath)
  /\ \A c \in 1..Len(started) : ~HasSkippedExtension(started[c])
  /\ Resolving => \A i \in ProcessedLines :
       LET p == LinePath(i)
       IN  (HasSkippedExtension(p) /\ ReachedSkipPolicy(i, p)) =>
             /\ ~CandidateOf(i, p)
             /\ ReasonsOf(i) =
                  { <<UpperToken(p[Len(p)])>>
                      \o <<" files are include/procedure files (not validated standalone)">> }

\* a diff of an unreadable .DEF file and a specfile: only the specfile was read and validated
C17_Witness ==
  /\ Returned
  /\ lines = << <<"M", "\t", "REPWRITERSPECS", "/", "UTILS", ".DEF">>,
                <<"M", "\t", "REPWRITERSPECS", "/", "FILE1", ".PO">> >>
  /\ reads = { <<"REPWRITERSPECS", "/", "FILE1", ".PO">> }
  /\ started = << <<"REPWRITERSPECS", "/", "FILE1", ".PO">> >>
  /\ skipped = << [line |-> 1,
                   reason |-> <<".DEF", " files are include/procedure files (not validated standalone)">>] >>

\* line i, whose path is p, holds a file whose extension does not decide and that is read
ReadBySkipPolicy(i, p) == ReachedSkipPolicy(i, p) /\ ~HasSkippedExtension(p)

\* C19: for a readable non-procedure file whose extension does not decide, the decision
\* the resolver takes follows the two division flags: both present, candidate; each other
\* case, its own reason.
C19_DivisionCases ==
  Resolving => \A i \in ProcessedLines :
    LET p == LinePath(i)
        content == readFile(p)
        text == removeBlockComments(content)
        hasTarget == hasTargetDivision(text)
        hasPrint == hasPrintDivision(text)
        reasons == ReasonsOf(i)
    IN  (/\ ReadBySkipPolicy(i, p)
         /\ content # Unreadable
         /\ toUpperCase(getFirstWord(content)) # <<"PROCEDURE">>) =>
          /\ (hasTarget /\ hasPrint) <=> CandidateOf(i, p)
          /\ (hasTarget /\ hasPrint) <=> reasons = {}
          /\ (~hasTarget /\ hasPrint) <=> reasons = {<<"missing TARGET division">>}
          /\ (hasTarget /\ ~hasPrint) <=> reasons = {<<"missing PRINT TITLE division">>}
          /\ (~hasTarget /\ ~hasPrint) <=>
               reasons = {<<"missing TARGET and PRINT TITLE divisions">>}

\* a scan of a file without divisions and a file without the TARGET division is done
C19_Witness ==
  /\ pc = "done"
  /\ lines = << <<"REPWRITERSPECS", "/", "NEITHER", ".PO">>,
                <<"REPWRITERSPECS", "/", "NOTARGET", ".PO">> >>
  /\ skipped = << [line |-> 1, reason |-> <<"missing TARGET and PRINT TITLE divisions">>],
                  [line |-> 2, reason |-> <<"missing TARGET division">>] >>

\* C20: a file that cannot be read and whose extension does not decide is not skipped: the
\* resolver makes it a candidate, the failed read ends nothing, and a run that returns has
\* passed it to validatePowerOn.
C20_FailsOpen ==
  /\ Resolving =>
       \A i \in ProcessedLines :
         LET p == LinePath(i)
         IN  (ReadBySkipPolicy(i, p) /\ readFile(p) = Unreadable) =>
               CandidateOf(i, p) /\ ReasonsOf(i) = {}
  /\ (thrown # <<>> /\ ~ClientConstructed) => ProcessedLines = {}
  /\ pc = "done" => (Returned \/ thrown # <<>>)
  /\ Returned =>
       \A k \in 1..Len(files) :
         readFile(files[k].filePath) = Unreadable =>
           \E c \in 1..Len(started) : started[c] = files[k].filePath

\* a scan that found only the unreadable file has returned after validating it
C20_Witness ==
  /\ Returned
  /\ lines = << <<"REPWRITERSPECS", "/", "GONE", ".PO">> >>
  /\ reads = { <<"REPWRITERSPECS", "/", "GONE", ".PO">> }
  /\ started = << <<"REPWRITERSPECS", "/", "GONE", ".PO">> >>
  /\ result[1].filesValidated = 1

\* C21: every candidate, in either mode, ends in a PowerOn extension; a diff line of
\* another path (README.md) is skipped as not a PowerOn file and gives no candidate.
C21_CandidatesArePowerOnFiles ==
  /\ \A k \in 1..Len(files) : HasPowerOnExtension(files[k].filePath)
  /\ \A c \in 1..Len(started) : HasPowerOnExtension(started[c])
  /\ (Resolving /\ config.targetBranch # NoBranch) =>
       \A i \in ProcessedLines :
         LET p == LinePath(i)
         IN  (p # <<>> /\ ~HasPowerOnExtension(p) /\ lines[i][1] # "D") =>
               /\ ~CandidateOf(i, p)
               /\ ReasonsOf(i) = {<<"not a PowerOn file">>}
  /\ (Returned
        /\ lines = << <<"M", "\t", "REPWRITERSPECS", "/", "FILE1", ".PO">>,
                      <<"A", "\t", "REPWRITERSPECS", "/", "README", ".md">> >>) =>
       result[1].filesValidated = 1

\* the run over the diff M FILE1.PO + A README.md has returned
C21_Witness ==
  /\ Returned
  /\ lines = << <<"M", "\t", "REPWRITERSPECS", "/", "FILE1", ".PO">>,
                <<"A", "\t", "REPWRITERSPECS", "/", "README", ".md">> >>
  /\ skipped = << [line |-> 2, reason |-> <<"not a PowerOn file">>] >>
  /\ started = << <<"REPWRITERSPECS", "/", "FILE1", ".PO">> >>

Survives(p) ==
  /\ \A b \in config.ignoreList : ~IsBasenameOf(b, p)
  /\ SkipReasons[p] = NoReason

FilePathOf(f) == f.filePath

C24_StatusNormalized ==
  config.targetBranch # NoBranch =>
    \A k \in 1..Len(files) :
      LET code == lines[origin[k]][1]
      IN  /\ code = "A" => files[k].status = <<"added">>
          /\ code = "M" => files[k].status = <<"modified">>
          /\ code \notin {"A", "M"} => files[k].status = <<code>>
          /\ files[k].status # <<"D">>

\* the diff of an added and a renamed file has been resolved and validated
C24_Witness ==
  /\ Returned
  /\ Len(files) = 2
  /\ files[1].status = <<"added">>
  /\ files[2].status = <<"R100">>
  /\ files[2].filePath = <<"REPWRITERSPECS", "/", "OLD", ".po">>

\* C25: the candidates are a subsequence of the scan or diff output, in the order of
\* its lines, and the files are handed to validatePowerOn and listed in validatedFiles
\* in that same order.
C25_OutputOrderKept ==
  /\ Resolving =>
       /\ \A k \in 1..Len(files) :
            /\ origin[k] \in 1..Len(lines)
            /\ files[k].filePath = LinePath(origin[k])
       /\ \A k \in 1..(Len(files) - 1) : origin[k] < origin[k + 1]
  /\ Len(started) <= Len(files)
  /\ Len(validatedFiles) = Len(started)
  /\ \A c \in 1..Len(started) :
       /\ started[c] = files[c].filePath
       /\ IsBasenameOf(validatedFiles[c], files[c].filePath)

\* two files that find printed against the alphabet were validated in find's order
C25_Witness ==
  /\ Returned
  /\ lines = << <<"REPWRITERSPECS", "/", "FILE2", ".PO">>,
                <<"REPWRITERSPECS", "/", "FILE1", ".PO">> >>
  /\ started = lines
  /\ result[1].validatedFiles = << <<"FILE2", ".PO">>, <<"FILE1", ".PO">> >>

\* C26: with the SSH transport createValidateWorker is called once in a run, and every
\* validatePowerOn call of the run is made on the worker that call gave.
C26_OneWorkerPerSession ==
  clients = <<"ssh">> =>
    /\ workers <= 1
    /\ Cardinality(CallsOf("createValidateWorker")) = workers
    /\ enteredLoop => workers = 1
    /\ Len(receivers) = Len(started)
    /\ \A c \in 1..Len(receivers) : receivers[c] = [kind |-> "worker", id |-> 1]

\* an SSH run that validated two files on its one worker
C26_Witness ==
  /\ Returned
  /\ clients = <<"ssh">>
  /\ workers = 1
  /\ Len(started) = 2
  /\ receivers = << [kind |-> "worker", id |-> 1], [kind |-> "worker", id |-> 1] >>

\* C27: with the SSH transport every createValidateWorker call and every validatePowerOn
\* call comes after client.isReady has resolved.
C27_ReadyBeforeUse ==
  clients = <<"ssh">> =>
    LET ready == CallsOf("isReady resolved")
    IN  /\ \A i \in CallsOf("createValidateWorker") \cup CallsOf("validatePowerOn") :
             \E j \in ready : j < i
        /\ (workers > 0 \/ started # <<>>) => ready # {}

\* an SSH run whose client got ready, gave a worker and validated a file
C27_Witness ==
  /\ Returned
  /\ clients = <<"ssh">>
  /\ started # <<>>
  /\ \E j \in CallsOf("isReady resolved"), i \in CallsOf("createValidateWorker"),
        k \in CallsOf("validatePowerOn") : j < i /\ i < k

\* C28: a run constructs at most one transport client, of the kind its connectionType
\* names, and uses no other: with https no SSH client and no worker, with ssh no HTTPS
\* client and no call on the client itself.
C28_TransportByConnectionType ==
  /\ Len(clients) <= 1
  /\ \A i \in 1..Len(clients) : clients[i] = config.connectionType
  /\ \A c \in 1..Len(receivers) :
       receivers[c].kind = (IF config.connectionType = "https" THEN "client" ELSE "worker")
  /\ clients # <<>> =>
       /\ Cardinality(CallsOf("new SymitarHTTPs")) + Cardinality(CallsOf("new SymitarSSH")) = 1
       /\ config.connectionType = "https" =>
            CallsOf("new SymitarSSH") = {} /\ workers = 0
       /\ config.connectionType = "ssh" => CallsOf("new SymitarHTTPs") = {}

\* an https run that validated a file on its HTTPS client
C28_Witness ==
  /\ Returned
  /\ config.connectionType = "https"
  /\ clients = <<"https">>
  /\ receivers # <<>>
  /\ receivers[1] = [kind |-> "client", id |-> 1]

\* the setFailed calls run() has made
FailedCalls_setFailed == CallsOf("setFailed")

\* C29: run() calls core.setFailed exactly when validatePowerOns returned a result with
\* filesFailed > 0 or an error was thrown (by validatePowerOns, or by run() itself for
\* its connection type); after a result with filesFailed = 0 it is never called.
C29_SetFailedIffFailure ==
  /\ pc # "exited" => FailedCalls_setFailed = {}
  /\ pc = "exited" =>
       /\ Cardinality(FailedCalls_setFailed) <= 1
       /\ FailedCalls_setFailed # {} <=>
            \/ result # <<>> /\ result[1].filesFailed > 0
            \/ thrown # <<>>
            \/ inputs.connectionType \notin {<<>>, <<"https">>, <<"ssh">>}
       /\ (result # <<>> /\ result[1].filesFailed = 0) => FailedCalls_setFailed = {}

\* run() has ended after a result in which one of two files failed
C29_Witness ==
  /\ pc = "exited"
  /\ result # <<>>
  /\ result[1].filesValidated = 2
  /\ result[1].filesFailed = 1
  /\ trace[Len(trace)] = [op |-> "setFailed", arg |-> [found |-> 1]]

\* C30: with a connection-type input other than https, ssh or the empty string, run()
\* fails the action without calling validatePowerOns: no credential check, no find,
\* rev-parse or diff, no client; with one of the three it calls validatePowerOns with
\* that type, ssh standing for the empty string.
C30_ConnectionTypeChecked ==
  IF inputs.connectionType \in {<<>>, <<"https">>, <<"ssh">>}
    THEN pc # "run" =>
           /\ config # NoConfig
           /\ config.connectionType =
                (IF inputs.connectionType = <<"https">> THEN "https" ELSE "ssh")
           /\ pc # "start" => CallsOf("validateApiKey") # {}
    ELSE /\ pc \in {"run", "exited"}
         /\ config = NoConfig
         /\ \A i \in 1..Len(trace) : trace[i].op = "setFailed"
         /\ pc = "exited" => Len(trace) = 1
         /\ clients = <<>> /\ revParsed = <<>> /\ diffRef = <<>> /\ lines = <<>>
         /\ reads = {} /\ started = <<>> /\ result = <<>> /\ thrown = <<>>

\* run() has ended on the connection type invalid with nothing else done
C30_Witness ==
  /\ pc = "exited"
  /\ inputs.connectionType = <<"invalid">>
  /\ trace = << [op |-> "setFailed",
                 arg |-> <<"Invalid connection type: ", "invalid",
                           ". Must be \"https\" or \"ssh\"">>] >>

\* the value run() has set the output name to, as a set: empty when it was not set
OutputValues(name) ==
  {trace[i].arg.value : i \in {j \in CallsOf("setOutput") : trace[j].arg.name = name}}

\* C31: once run() has ended after validatePowerOns returned a result, the outputs
\* files-validated, files-passed and files-failed carry the result's filesValidated,
\* filesPassed and filesFailed, each set once and before any setFailed call, also when
\* filesFailed > 0; without a result no output is set.
C31_OutputsFromResult ==
  /\ pc # "exited" => CallsOf("setOutput") = {}
  /\ (pc = "exited" /\ result = <<>>) => CallsOf("setOutput") = {}
  /\ (pc = "exited" /\ result # <<>>) =>
       /\ Cardinality(CallsOf("setOutput")) = 3
       /\ OutputValues("files-validated") = {result[1].filesValidated}
       /\ OutputValues("files-passed") = {result[1].filesPassed}
       /\ OutputValues("files-failed") = {result[1].filesFailed}
       /\ \A i \in CallsOf("setOutput"), j \in CallsOf("setFailed") : i < j
       /\ result[1].filesFailed > 0 => CallsOf("setFailed") # {}

\* run() has ended after a result with one failed file of two: outputs 2, 1, 1, then
\* setFailed
C31_Witness ==
  /\ pc = "exited"
  /\ result # <<>>
  /\ result[1].filesFailed = 1
  /\ OutputValues("files-validated") = {2}
  /\ OutputValues("files-passed") = {1}
  /\ OutputValues("files-failed") = {1}
  /\ CallsOf("setFailed") # {}

\* the places in the trace where a client.end() call settled
EndSettled == CallsOf("end resolved") \cup CallsOf("end rejected")

\* the dispatcher has handed its result or its error to its caller
Delivered == result # <<>> \/ thrown # <<>>

PolicyTouched(p) ==
  \/ p \in reads
  \/ \E i \in 1..Len(trace) : trace[i].op \in {"getSkipReason", "readFile"} /\ trace[i].arg = p

\* C33: for a diff line that is deleted, ignore-listed or not a PowerOn file, and for an
\* ignore-listed scan line, the skip policy is not asked and the file is not read.
C33_PolicyOnlyForRemaining ==
  Resolving =>
    \A i \in ProcessedLines :
      LET p == LinePath(i)
      IN  (p # <<>> /\ ~ReachedSkipPolicy(i, p)) => ~PolicyTouched(p)

\* a diff with a deleted file and a changed one: the policy was asked about the second only
C33_Witness ==
  /\ pc = "gotFiles"
  /\ lines = << <<"D", "\t", "REPWRITERSPECS", "/", "DELETED", ".PO">>,
                <<"M", "\t", "REPWRITERSPECS", "/", "FILE1", ".PO">> >>
  /\ ~PolicyTouched(<<"REPWRITERSPECS", "/", "DELETED", ".PO">>)
  /\ PolicyTouched(<<"REPWRITERSPECS", "/", "FILE1", ".PO">>)
  /\ \E i \in 1..Len(trace) : trace[i].op = "getSkipReason"

\* line i, whose path is p, is excluded: by its deletion status, the ignore list, the
\* classifier or the skip policy
ExcludedLine(i, p) ==
  p # <<>> /\ (~ReachedSkipPolicy(i, p) \/ SkipReasons[p] # NoReason)

\* C34: validatePowerOn is called only on paths of the candidate list, and a path excluded
\* by deletion status, ignore list, classifier or skip policy is handed to no
\* validatePowerOn call, named by no entry of validatedFiles or errors, and counted in
\* none of filesValidated, filesPassed and filesFailed.
C34_OnlyCandidatesValidated ==
  /\ \A c \in 1..Len(started) : \E k \in 1..Len(files) : files[k].filePath = started[c]
  /\ Returned =>
       LET r == result[1]
           kept == {i \in 1..Len(lines) :
                      LinePath(i) # <<>> /\ ~ExcludedLine(i, LinePath(i))}
       IN  /\ r.filesValidated = Cardinality(kept)
           /\ r.filesPassed + r.filesFailed = Cardinality(kept)
           /\ Len(r.validatedFiles) = Cardinality(kept)
           /\ \A i \in 1..Len(lines) :
                LET p == LinePath(i)
                IN  ExcludedLine(i, p) =>
                      /\ \A c \in 1..Len(started) : started[c] # p
                      /\ \A c \in 1..Len(r.validatedFiles) : ~IsBasenameOf(r.validatedFiles[c], p)
                      /\ \A e \in 1..Len(r.errors) :
                           ~HasPrefix(r.errors[e], basename(p) \o <<": ">>)

\* a diff of a file that is no PowerOn file and a file that failed validation: the result
\* counts and names the second only
C34_Witness ==
  /\ Returned
  /\ lines = << <<"A", "\t", "REPWRITERSPECS", "/", "README", ".md">>,
                <<"M", "\t", "REPWRITERSPECS", "/", "FILE1", ".PO">> >>
  /\ result[1].filesValidated = 1
  /\ result[1].filesFailed = 1
  /\ started = << <<"REPWRITERSPECS", "/", "FILE1", ".PO">> >>

\* createValidateWorker has rejected in this run
WorkerFailed == CallsOf("createValidateWorker rejected") # {}

C36_RenameGivesNewPath ==
  (config.targetBranch # NoBranch /\ Resolving) =>
    \A k \in 1..Len(files) :
      LET parts == SplitOn(lines[origin[k]], "\t")
      IN  Len(parts) = 3 =>
            /\ files[k].filePath = parts[3]
            /\ files[k].filePath # parts[2]

\* C37: the references handed to git rev-parse in one run are pairwise distinct, and there
\* are at most five of them.
C37_NoRefCheckedTwice ==
  /\ Len(revParsed) <= 5
  /\ \A i, j \in 1..Len(revParsed) : i # j => revParsed[i] # revParsed[j]

\* C38: when the awaited client.end() of the SSH dispatcher rejects, the run ends with
\* that teardown error thrown and no ValidationResult returned, also after a file loop
\* that went through every file.
C38_TeardownFailure ==
  (clients = <<"ssh">> /\ CallsOf("end rejected") # {}) =>
    /\ pc = "done"
    /\ pending = <<>>
    /\ result = <<>>
    /\ Cardinality(CallsOf("end rejected")) = 1
    /\ \A j \in CallsOf("end rejected") : thrown = <<trace[j].arg>> /\ j = Len(trace)

\* the loop went through two files, one of which failed, and client.end() rejected
C38_Witness ==
  /\ pc = "done"
  /\ clients = <<"ssh">>
  /\ enteredLoop
  /\ Len(settled) = 2 /\ Len(files) = 2
  /\ filesFailed = 1
  /\ Len(validatedFiles) = 2
  /\ CallsOf("end rejected") # {}
  /\ thrown = << <<"teardown failed">> >>
  /\ result = <<>>

\* C39: when the target-branch input is the empty string, run() calls validatePowerOns
\* with an empty target branch and the run is a full scan: git rev-parse and git diff are
\* never executed, and neither the error thrown nor the setFailed message is the
\* 'target branch not found' one.
C39_EmptyTargetBranchScans ==
  inputs.targetBranch = <<>> =>
    /\ pc # "run" => (config = NoConfig \/ config.targetBranch = NoBranch)
    /\ revParsed = <<>> /\ diffRef = <<>> /\ resolvedBranch = <<>>
    /\ CallsOf("exec git rev-parse") = {} /\ CallsOf("exec git diff") = {}
    /\ lines # <<>> => CallsOf("exec find") # {}
    /\ \A i \in 1..Len(thrown) : ~HasPrefix(thrown[i], <<"Target branch '">>)
    /\ result = <<>> =>
         \A i \in CallsOf("setFailed") : ~HasPrefix(trace[i].arg, <<"Target branch '">>)

\* run() without target-branch input has ended after a full scan that validated a file
C39_Witness ==
  /\ pc = "exited"
  /\ inputs.targetBranch = <<>>
  /\ result # <<>>
  /\ config.targetBranch = NoBranch
  /\ CallsOf("exec find") # {}
  /\ result[1].filesValidated >= 1

\* no step of the run has been taken more often than the code provides for
NoRetry ==
  /\ Len(revParsed) <= 5
  /\ Cardinality(CallsOf("validateApiKey")) <= 1
  /\ Cardinality(CallsOf("exec find")) + Cardinality(CallsOf("exec git diff")) <= 1
  /\ Len(clients) <= 1 /\ workers <= 1 /\ endCalls <= 1
  /\ Len(started) <= Len(files)
  /\ \A c \in 1..Len(started) : started[c] = files[c].filePath

\* C40: when every call to a collaborator returns or throws in the end, every run of
\* validatePowerOns ends, with a ValidationResult returned or an error thrown; at no time
\* has it checked more than five references or taken a step twice, and a result that
\* comes from the file loop comes after exactly one validatePowerOn call per candidate.
C40_Terminates ==
  /\ <>(pc = "done" /\ (result # <<>> \/ thrown # <<>>))
  /\ [](NoRetry /\ ((Returned /\ enteredLoop) => Len(started) = Len(files)))

\* a run that tried all five references, found the last one and returned after validating
\* two files
C40_Witness ==
  /\ Returned
  /\ Len(revParsed) = 5
  /\ Len(files) = 2
  /\ Len(started) = 2

====
